---- MODULE Spec2Model ----
(***************************************************************************)
(* Model of the inference orchestrator of SA_FHE (src/client.py): the      *)
(* process-wide statistics aggregate `stats`, the loader of the text       *)
(* processor and of the classifier, and analyze_sentiment_detailed.        *)
(*                                                                         *)
(* Conventions.  A text is a sequence of one-character strings.  Floats    *)
(* are exact: a probability is an integer number of hundredths, a          *)
(* confidence is therefore an integer number of hundredths of a percent    *)
(* (max(p) * 100), a duration is an integer number of clock ticks, and     *)
(* avg_confidence is a reduced fraction <<numerator, denominator>>.        *)
(* Python's None is the string "None".                                     *)
(***************************************************************************)
EXTENDS Integers, Sequences, FiniteSets, TLC

VARIABLES
    processor,      \* client.py:17   "None" | "Loaded"
    model_api,      \* client.py:19   "None" | "NoProba" | "WithProba"
    stats,          \* client.py:23   the running statistics
    steps,          \* the dictionary returned by the last analyze call
    trace,          \* collaborator calls made by the last analyze call
    clock,          \* the time datetime.now() reports: one tick per analyze call
    okLog,          \* history variable: one record per call that updated stats
    lastCall,       \* history variable: the inputs of the last analyze call
    pc,             \* concurrent requests: position of each request thread
    loc,            \* concurrent requests: locals of each request thread
    fhe,            \* fhe_simulator.py:11  the FHESimulator instance
    run,            \* fhe_simulator.py:139 the locals of the simulator call in progress
    tproc,          \* text_processor.py:13 the TextProcessor instance
    emb             \* text_processor.py:35 the last text_to_tensor call

vars == <<processor, model_api, stats, steps, trace, clock, okLog, lastCall, pc, loc,
          fhe, run, tproc, emb>>

(***************************************************************************)
(* Bounds of the model.                                                    *)
(***************************************************************************)
MaxCalls == 2
MaxDeepCalls == 11
MaxDuration == 1
NumThreads == 2
MaxBits == 8
MaxRuns == 2
MaxTexts == 3
MaxBatch == 3
MaxEmbedCalls == 2

(***************************************************************************)
(* Program constants.                                                      *)
(***************************************************************************)
HistoryCap == 10
DisplayLen == 50
PercentFactor == 100
DefaultBits == 3
MaxLength == 512
FillId == 0

None == "None"

sentiment_labels == <<"Negative", "Positive">>

(***************************************************************************)
(* Texts.                                                                  *)
(***************************************************************************)
IsSpace(c) == c = " "

RECURSIVE LStrip(_)
LStrip(t) == IF t # <<>> /\ IsSpace(Head(t)) THEN LStrip(Tail(t)) ELSE t

RECURSIVE RStrip(_)
RStrip(t) ==
    IF t # <<>> /\ IsSpace(t[Len(t)]) THEN RStrip(SubSeq(t, 1, Len(t) - 1)) ELSE t

Strip(t) == RStrip(LStrip(t))

Ellipsis == <<".", ".", ".">>

\* text[:50] + "..." if len(text) > 50 else text
DisplayText(t) ==
    IF Len(t) > DisplayLen THEN SubSeq(t, 1, DisplayLen) \o Ellipsis ELSE t

Repeat(c, n) == [i \in 1..n |-> c]

TextEmpty == <<>>
TextBlank == <<" ", " ">>
TextShort == <<" ", "o", "k", " ">>
TextLong  == Repeat("b", DisplayLen + 1)

\* the texts of the wide specification; the long runs use TextLong as well
Texts == {TextEmpty, TextBlank, TextShort}

(***************************************************************************)
(* Exact arithmetic for avg_confidence.                                    *)
(***************************************************************************)
Abs(x) == IF x < 0 THEN -x ELSE x

RECURSIVE GCD(_, _)
GCD(a, b) == IF b = 0 THEN a ELSE GCD(b, a % b)

Frac(n, d) ==
    LET g == GCD(Abs(n), d) IN IF g = 0 THEN <<0, 1>> ELSE <<n \div g, d \div g>>

FracTimesInt(q, k) == Frac(q[1] * k, q[2])
FracPlusInt(q, k)  == Frac(q[1] + k * q[2], q[2])
FracOverInt(q, k)  == Frac(q[1], q[2] * k)

Max(a, b) == IF a >= b THEN a ELSE b
Min(a, b) == IF a <= b THEN a ELSE b

RECURSIVE SumSeq(_)
SumSeq(s) == IF s = <<>> THEN 0 ELSE Head(s) + SumSeq(Tail(s))

(***************************************************************************)
(* The statistics aggregate.                                               *)
(***************************************************************************)
InitStats ==
    [ total_predictions     |-> 0,
      negative_count        |-> 0,
      positive_count        |-> 0,
      avg_confidence        |-> <<0, 1>>,
      total_processing_time |-> 0,
      predictions_history   |-> <<>> ]

\* stats["total_predictions"] += 1
IncTotal(s) == [s EXCEPT !.total_predictions = @ + 1]

\* if sentiment_idx == 0: negative_count += 1 else: positive_count += 1
CountLabelSkipUnknown(s, idx) ==
    IF idx = 0 THEN [s EXCEPT !.negative_count = @ + 1]
    ELSE IF idx = 1 THEN [s EXCEPT !.positive_count = @ + 1]
    ELSE s

CountLabel(s, idx) ==
    IF idx = 0 THEN [s EXCEPT !.negative_count = @ + 1]
    ELSE [s EXCEPT !.positive_count = @ + 1]

\* total_conf = avg * (total - 1) + confidence ; avg = total_conf / total
RunningMeanStale(avg, total, confidence) ==
    FracOverInt(FracPlusInt(FracTimesInt(avg, total), confidence), total)

RunningMean(avg, total, confidence) ==
    FracOverInt(FracPlusInt(FracTimesInt(avg, total - 1), confidence), total)

UpdateAvg(s, confidence) ==
    [s EXCEPT !.avg_confidence = RunningMean(@, s.total_predictions, confidence)]

\* stats["total_processing_time"] += prediction_time
AddTime(s, dt) == [s EXCEPT !.total_processing_time = @ + dt]

\* a full history refuses the new record instead of evicting the oldest
HistoryPushKeepOldest(h, rec) ==
    IF Len(h) >= HistoryCap THEN h ELSE Append(h, rec)

\* predictions_history.append(rec); if len(...) > 10: pop(0)
HistoryPush(h, rec) ==
    LET a == Append(h, rec) IN IF Len(a) > HistoryCap THEN Tail(a) ELSE a

HistoryRecord(text, sentiment, confidence, now) ==
    [ text |-> DisplayText(text), sentiment |-> sentiment,
      confidence |-> confidence, timestamp |-> now ]

PushHistory(s, rec) == [s EXCEPT !.predictions_history = HistoryPush(@, rec)]

\* client.py:241-261, the update made by a privacy-mode call
UpdateStatsPrivacy(s, idx, sentiment, confidence, dt, text, now) ==
    PushHistory(
        AddTime(UpdateAvg(CountLabel(IncTotal(s), idx), confidence), dt),
        HistoryRecord(text, sentiment, confidence, now))

UpdateStatsClearTimed(s, idx, confidence) ==
    AddTime(UpdateAvg(CountLabel(IncTotal(s), idx), confidence), 1)

\* client.py:327-335, the update made by a clear-mode call
UpdateStatsClear(s, idx, confidence) ==
    UpdateAvg(CountLabel(IncTotal(s), idx), confidence)

(***************************************************************************)
(* The classifier and the embedder, as seen by one analyze call.           *)
(* A predict outcome is [raises, value]; a predict_proba outcome is        *)
(* [raises, row], row being proba[0].                                      *)
(***************************************************************************)
ClassifierFailure == "classifier failure"
EncoderFailure == "encoder failure"
IndexError == "list index out of range"

Raised == [raises |-> TRUE, value |-> 0]
Returned(v) == [raises |-> FALSE, value |-> v]

ProbaRaised == [raises |-> TRUE, row |-> <<>>]
ProbaRow(r) == [raises |-> FALSE, row |-> r]

\* the responses of the collaborators to one analyze call
Env(embedRaises, pred, proba, dt) ==
    [embedRaises |-> embedRaises, pred |-> pred, proba |-> proba, dt |-> dt]

\* Python's seq[i]: negative indices count from the end
PyIndexRaises(seq, i) == i >= Len(seq) \/ i < -Len(seq)
PyIndex(seq, i) == IF i >= 0 THEN seq[i + 1] ELSE seq[Len(seq) + i + 1]

\* sentiment_labels[idx] if idx < len(sentiment_labels) else "Unknown"
SentimentRaises(idx) ==
    idx < Len(sentiment_labels) /\ PyIndexRaises(sentiment_labels, idx)

SentimentLabelSwapped(idx) ==
    IF idx < Len(sentiment_labels)
    THEN PyIndex(<<"Positive", "Negative">>, idx)
    ELSE "Unknown"

SentimentLabel(idx) ==
    IF idx < Len(sentiment_labels)
    THEN PyIndex(sentiment_labels, idx)
    ELSE "Unknown"

\* the fallback of api_server.py:105-108 used in place of client.py:232-239
ProbabilitiesHalf(model, proba) ==
    IF model = "WithProba" /\ ~proba.raises
    THEN LET pn == IF Len(proba.row) > 0 THEN proba.row[1] ELSE 0
             pp == IF Len(proba.row) > 1 THEN proba.row[2] ELSE 0
         IN  [ proba_negative |-> pn, proba_positive |-> pp,
               confidence |-> Max(pn, pp) * PercentFactor ]
    ELSE [ proba_negative |-> 50, proba_positive |-> 50, confidence |-> 5000 ]

\* the percentage taken twice
ProbabilitiesRescaled(model, proba) ==
    IF model = "WithProba" /\ ~proba.raises
    THEN LET pn == IF Len(proba.row) > 0 THEN proba.row[1] ELSE 0
             pp == IF Len(proba.row) > 1 THEN proba.row[2] ELSE 0
         IN  [ proba_negative |-> pn, proba_positive |-> pp,
               confidence |-> Max(pn, pp) * PercentFactor * PercentFactor ]
    ELSE [ proba_negative |-> 0, proba_positive |-> 0, confidence |-> 0 ]

\* client.py:225-239 and 311-325: the probabilities and the confidence
Probabilities(model, proba) ==
    IF model = "WithProba" /\ ~proba.raises
    THEN LET pn == IF Len(proba.row) > 0 THEN proba.row[1] ELSE 0
             pp == IF Len(proba.row) > 1 THEN proba.row[2] ELSE 0
         IN  [ proba_negative |-> pn, proba_positive |-> pp,
               confidence |-> Max(pn, pp) * PercentFactor ]
    ELSE [ proba_negative |-> 0, proba_positive |-> 0, confidence |-> 0 ]

PredictTrace(model) ==
    IF model = "WithProba"
    THEN <<"text_to_tensor", "predict", "predict_proba">>
    ELSE <<"text_to_tensor", "predict">>

(***************************************************************************)
(* The dictionary analyze_sentiment_detailed returns.                      *)
(***************************************************************************)
ErrNone == [msg |-> None, cause |-> ""]
Err(msg, cause) == [msg |-> msg, cause |-> cause]

NoFinal ==
    [ kind |-> "", sentiment |-> "", confidence |-> 0, proba_negative |-> 0,
      proba_positive |-> 0, processing_time |-> 0, cause |-> "" ]

FinalResult(kind, sentiment, p, dt) ==
    [ kind |-> kind, sentiment |-> sentiment, confidence |-> p.confidence,
      proba_negative |-> p.proba_negative, proba_positive |-> p.proba_positive,
      processing_time |-> dt, cause |-> "" ]

FinalError(cause) == [NoFinal EXCEPT !.kind = "Error", !.cause = cause]

InitSteps ==
    [ step1_text |-> <<>>, step1_vector |-> "", step2_quantization |-> "",
      step3_encryption |-> "", step4_prediction |-> "", step5_decryption |-> "",
      final_result |-> NoFinal, error |-> ErrNone ]

Ret(s, st, tr, ok) == [stats |-> s, steps |-> st, trace |-> tr, ok |-> ok]

PrivacyFailureCounted(s, st, tr, cause) ==
    Ret(IncTotal(s), [st EXCEPT !.error = Err("Prediction Error", cause)], tr, FALSE)

\* client.py:274-277: the privacy branch reports a failure in steps["error"]
PrivacyFailure(s, st, tr, cause) ==
    Ret(s, [st EXCEPT !.error = Err("Prediction Error", cause)], tr, FALSE)

\* client.py:348-351: the clear branch reports it in the step fields only
ClearFailure(s, st, tr, cause) ==
    Ret(s, [st EXCEPT !.step4_prediction = "PREDICTION: Error",
                      !.step5_decryption = "SKIPPED",
                      !.final_result = FinalError(cause)], tr, FALSE)

\* client.py:165-277
PrivacyBranch(s, st, model, text, pred, proba, dt, now) ==
    LET st3 == [st EXCEPT !.step2_quantization = "QUANTIZATION",
                          !.step3_encryption = "ENCRYPTION",
                          !.step4_prediction = "FHE PREDICTION"]
        tr  == <<"text_to_tensor", "predict">>
    IN  IF pred.raises THEN PrivacyFailure(s, st3, tr, ClassifierFailure)
        ELSE IF SentimentRaises(pred.value) THEN PrivacyFailure(s, st3, tr, IndexError)
        ELSE LET sentiment == SentimentLabel(pred.value)
                 p == Probabilities(model, proba)
             IN  Ret(UpdateStatsPrivacy(s, pred.value, sentiment, p.confidence,
                                        dt, text, now),
                     [st3 EXCEPT !.step5_decryption = "DECRYPTION",
                                 !.final_result =
                                     FinalResult("PREDICTION RESULT", sentiment, p, dt)],
                     PredictTrace(model), TRUE)

\* client.py:279-351
ClearBranch(s, st, model, pred, proba) ==
    LET st3 == [st EXCEPT !.step2_quantization = "SKIPPED",
                          !.step3_encryption = "SKIPPED",
                          !.step4_prediction = "PREDICTION (Clear Mode)"]
        tr  == <<"text_to_tensor", "predict">>
    IN  IF pred.raises THEN ClearFailure(s, st3, tr, ClassifierFailure)
        ELSE IF SentimentRaises(pred.value)
             THEN ClearFailure(s, [st3 EXCEPT !.step5_decryption = "SKIPPED"],
                               tr, IndexError)
        ELSE LET sentiment == SentimentLabel(pred.value)
                 p == Probabilities(model, proba)
             IN  Ret(UpdateStatsClear(s, pred.value, p.confidence),
                     [st3 EXCEPT !.step5_decryption = "SKIPPED",
                                 !.final_result =
                                     FinalResult("RESULT (Clear Mode)", sentiment, p, 0)],
                     PredictTrace(model), TRUE)

IsBlankEmptyOnly(text) == text = <<>>

\* client.py:131-134
IsBlank(text) == text = <<>> \/ Len(Strip(text)) = 0

ModelNotLoadedIgnored(model) == FALSE

\* client.py:159-161
ModelNotLoaded(model) == model = None

\* client.py:110-360
analyze_sentiment_detailed(s, proc, model, text, use_fhe, env, now) ==
    IF proc = None
    THEN Ret(s, [InitSteps EXCEPT !.error = Err("Error: Processor not loaded", "")],
             <<>>, FALSE)
    ELSE IF IsBlank(text)
    THEN Ret(s, [InitSteps EXCEPT !.error = Err("Please enter a text to analyze.", "")],
             <<>>, FALSE)
    ELSE LET t   == Strip(text)
             st1 == [InitSteps EXCEPT !.step1_text = t]
         IN  IF env.embedRaises
             THEN Ret(s, [st1 EXCEPT !.error = Err("Error", EncoderFailure)],
                      <<"text_to_tensor">>, FALSE)
             ELSE LET st2 == [st1 EXCEPT !.step1_vector = "IN CLEAR TEXT"]
                  IN  IF ModelNotLoaded(model)
                      THEN Ret(s, [st2 EXCEPT !.error =
                                       Err("ERROR: Model not loaded", "")],
                               <<"text_to_tensor">>, FALSE)
                      ELSE IF use_fhe
                      THEN PrivacyBranch(s, st2, model, t, env.pred, env.proba, env.dt, now)
                      ELSE ClearBranch(s, st2, model, env.pred, env.proba)

\* client.py:363-370
analyze_sentiment_local(st) ==
    IF st.error # ErrNone THEN [from |-> "error", cause |-> st.error.cause]
    ELSE [from |-> "final_result", cause |-> st.final_result.cause]

(***************************************************************************)
(* Inputs of the sequential specifications.                                *)
(***************************************************************************)
Durations == 0..MaxDuration

PredictOutcomes == {Raised} \cup {Returned(v) : v \in -3..2}
ProbaOutcomes == {ProbaRaised, ProbaRow(<<20, 80>>), ProbaRow(<<90, 10>>)}

\* client.py:33-107: the processor is loaded first, the classifier after it
LoadOutcomes ==
    { <<None, None>>, <<"Loaded", None>>, <<"Loaded", "NoProba">>,
      <<"Loaded", "WithProba">> }

Threads == 1..NumThreads
IdleLoc ==
    [ use_fhe |-> FALSE, idx |-> 0, sentiment |-> "", confidence |-> 0, dt |-> 0,
      text |-> <<>>, reg |-> 0, total_conf |-> <<0, 1>>, quot |-> <<0, 1>> ]

NoCall ==
    [ made |-> FALSE, text |-> <<>>, use_fhe |-> FALSE,
      env |-> Env(FALSE, Raised, ProbaRaised, 0), before |-> InitStats ]

\* no FHESimulator has been constructed
NoSimulator ==
    [ n_bits |-> 0, quantization_scale |-> 0, public_key |-> None, secret_key |-> None ]

NoMetadata == [ original_shape |-> <<0, 0>>, encryption_method |-> None ]

\* no simulator call has been made; `calls` lists the operations the call has
\* invoked so far and `self0` is the instance as it was when the call began
NoRun ==
    [ stage |-> "idle", runs |-> 0, model |-> 0, X |-> <<>>, quantized |-> <<>>,
      data_min |-> <<0, 1>>, data_max |-> <<0, 1>>, divided |-> FALSE,
      encrypted |-> <<>>, metadata |-> NoMetadata, encrypted_result |-> <<>>,
      decrypted |-> <<>>, dequantized |-> <<>>, prediction |-> <<>>,
      calls |-> <<>>, self0 |-> NoSimulator ]

\* no TextProcessor has been constructed
NoProcessor == [ device |-> None, training |-> TRUE ]

\* text_to_tensor has not been called; `prev_rows` is what the call before the
\* last returned and `self0` the instance before the first call
NoEmbed ==
    [ calls |-> 0, again |-> FALSE, is_str |-> FALSE, texts |-> <<>>, batch_size |-> 0,
      raises |-> FALSE, handed |-> <<>>, batches |-> <<>>, rows |-> <<>>,
      prev_rows |-> <<>>, self0 |-> NoProcessor ]

Init ==
    /\ processor = None
    /\ model_api = None
    /\ stats = InitStats
    /\ steps = InitSteps
    /\ trace = <<>>
    /\ clock = 0
    /\ okLog = <<>>
    /\ lastCall = NoCall
    /\ pc = [t \in Threads |-> "idle"]
    /\ loc = [t \in Threads |-> IdleLoc]
    /\ fhe = NoSimulator
    /\ run = NoRun
    /\ tproc = NoProcessor
    /\ emb = NoEmbed

\* client.py:33-107, called once at start-up (client.py:816)
Load(outcomes) ==
    /\ clock = 0
    /\ processor = None
    /\ \E o \in outcomes : processor' = o[1] /\ model_api' = o[2]
    /\ UNCHANGED <<stats, steps, trace, clock, okLog, lastCall, pc, loc, fhe, run, tproc, emb>>

\* The collaborators answer only the calls that are made: the responses an
\* analyze call can consume, given how far it gets.
Envs(text, use_fhe, preds, probas, durations) ==
    IF processor = None \/ IsBlank(text)
    THEN {Env(FALSE, Raised, ProbaRaised, 0)}
    ELSE {Env(TRUE, Raised, ProbaRaised, 0)} \cup
         IF model_api = None
         THEN {Env(FALSE, Raised, ProbaRaised, 0)}
         ELSE LET failing == {p \in preds : p.raises \/ SentimentRaises(p.value)}
              IN  {Env(FALSE, p, ProbaRaised, 0) : p \in failing} \cup
                  { Env(FALSE, p, q, d) :
                      p \in preds \ failing,
                      q \in IF model_api = "WithProba" THEN probas ELSE {ProbaRaised},
                      d \in IF use_fhe THEN durations ELSE {0} }

\* one whole call of analyze_sentiment_detailed
Analyze(text, use_fhe, env) ==
    LET now == clock + 1
        r   == analyze_sentiment_detailed(stats, processor, model_api, text, use_fhe,
                                          env, now)
    IN  /\ stats' = r.stats
        /\ steps' = r.steps
        /\ trace' = r.trace
        /\ clock' = now
        /\ okLog' = IF r.ok
                    THEN Append(okLog,
                                [ use_fhe |-> use_fhe, text |-> text,
                                  idx |-> env.pred.value,
                                  sentiment |-> r.steps.final_result.sentiment,
                                  confidence |-> r.steps.final_result.confidence,
                                  dt |-> env.dt, now |-> now ])
                    ELSE okLog
        /\ lastCall' = [ made |-> TRUE, text |-> text, use_fhe |-> use_fhe,
                         env |-> env, before |-> stats ]
        /\ UNCHANGED <<processor, model_api, pc, loc, fhe, run, tproc, emb>>

LoadModelAndProcessor == Load(LoadOutcomes)

AnalyzeCall ==
    /\ clock < MaxCalls
    /\ \E text \in Texts, use_fhe \in BOOLEAN :
          \E env \in Envs(text, use_fhe, PredictOutcomes, ProbaOutcomes, Durations) :
             Analyze(text, use_fhe, env)

Next == LoadModelAndProcessor \/ AnalyzeCall

Spec == Init /\ [][Next]_vars

(***************************************************************************)
(* Long runs over a narrow set of inputs: a successful privacy-mode call,  *)
(* a successful clear-mode call, and a call whose predict raises.          *)
(***************************************************************************)
DeepLoad == Load({<<"Loaded", "WithProba">>})

DeepPrivacyCall ==
    /\ clock < MaxDeepCalls
    /\ Analyze(TextLong, TRUE, Env(FALSE, Returned(1), ProbaRow(<<20, 80>>), 1))

DeepClearCall ==
    /\ clock < MaxDeepCalls
    /\ Analyze(TextShort, FALSE, Env(FALSE, Returned(0), ProbaRow(<<90, 10>>), 0))

DeepFailedCall ==
    /\ clock < MaxDeepCalls
    /\ Analyze(TextShort, TRUE, Env(FALSE, Raised, ProbaRaised, 0))

NextDeep == DeepLoad \/ DeepPrivacyCall \/ DeepClearCall \/ DeepFailedCall

SpecDeep == Init /\ [][NextDeep]_vars

(***************************************************************************)
(* Concurrent requests.  The web front end runs each request on its own    *)
(* worker thread (client.py:799-813, 860), and the statistics update of    *)
(* client.py:241-261 / 327-335 takes no lock: every read and every write   *)
(* of a field of `stats` is a step of its own, and the interpreter may     *)
(* switch threads between any two of them.  Each thread serves one         *)
(* request whose prediction succeeded.                                     *)
(***************************************************************************)
ConcLoad == Load({<<"Loaded", "WithProba">>})

Goto(t, to) == pc' = [pc EXCEPT ![t] = to]
SetLoc(t, l) == loc' = [loc EXCEPT ![t] = l]
Shared == <<processor, model_api, steps, trace, lastCall, fhe, run, tproc, emb>>

\* client.py:127-239 / 279-325: everything before the update is thread-local
Start(t) ==
    /\ pc[t] = "idle"
    /\ processor # None /\ model_api # None
    /\ \E use_fhe \in BOOLEAN, idx \in 0..1 :
          LET sentiment == SentimentLabel(idx)
              p == Probabilities(model_api, ProbaRow(<<20, 80>>))
          IN  SetLoc(t, [loc[t] EXCEPT !.use_fhe = use_fhe, !.idx = idx,
                                       !.sentiment = sentiment,
                                       !.confidence = p.confidence,
                                       !.dt = 1, !.text = Strip(TextShort)])
    /\ Goto(t, "read_total")
    /\ clock' = clock + 1
    /\ UNCHANGED <<stats, okLog>> /\ UNCHANGED Shared

\* stats["total_predictions"] += 1                       (client.py:242, 328)
ReadTotal(t) ==
    /\ pc[t] = "read_total"
    /\ SetLoc(t, [loc[t] EXCEPT !.reg = stats.total_predictions])
    /\ Goto(t, "write_total")
    /\ UNCHANGED <<stats, clock, okLog>> /\ UNCHANGED Shared

WriteTotal(t) ==
    /\ pc[t] = "write_total"
    /\ stats' = [stats EXCEPT !.total_predictions = loc[t].reg + 1]
    /\ Goto(t, "read_count")
    /\ UNCHANGED <<loc, clock, okLog>> /\ UNCHANGED Shared

\* stats["negative_count"] += 1 / stats["positive_count"] += 1
\*                                                (client.py:243-246, 329-332)
ReadCount(t) ==
    /\ pc[t] = "read_count"
    /\ SetLoc(t, [loc[t] EXCEPT !.reg = IF loc[t].idx = 0
                                        THEN stats.negative_count
                                        ELSE stats.positive_count])
    /\ Goto(t, "write_count")
    /\ UNCHANGED <<stats, clock, okLog>> /\ UNCHANGED Shared

WriteCount(t) ==
    /\ pc[t] = "write_count"
    /\ stats' = IF loc[t].idx = 0
                THEN [stats EXCEPT !.negative_count = loc[t].reg + 1]
                ELSE [stats EXCEPT !.positive_count = loc[t].reg + 1]
    /\ Goto(t, "total_conf")
    /\ UNCHANGED <<loc, clock, okLog>> /\ UNCHANGED Shared

\* total_conf = avg * (total - 1) + confidence            (client.py:249, 334)
TotalConf(t) ==
    /\ pc[t] = "total_conf"
    /\ SetLoc(t, [loc[t] EXCEPT !.total_conf =
                     FracPlusInt(FracTimesInt(stats.avg_confidence,
                                              stats.total_predictions - 1),
                                 loc[t].confidence)])
    /\ Goto(t, "divide")
    /\ UNCHANGED <<stats, clock, okLog>> /\ UNCHANGED Shared

\* stats["avg_confidence"] = total_conf / total           (client.py:250, 335)
Divide(t) ==
    /\ pc[t] = "divide"
    /\ SetLoc(t, [loc[t] EXCEPT !.quot =
                     FracOverInt(loc[t].total_conf, stats.total_predictions)])
    /\ Goto(t, "write_avg")
    /\ UNCHANGED <<stats, clock, okLog>> /\ UNCHANGED Shared

WriteAvg(t) ==
    /\ pc[t] = "write_avg"
    /\ stats' = [stats EXCEPT !.avg_confidence = loc[t].quot]
    /\ Goto(t, IF loc[t].use_fhe THEN "read_time" ELSE "finish")
    /\ UNCHANGED <<loc, clock, okLog>> /\ UNCHANGED Shared

\* stats["total_processing_time"] += prediction_time          (client.py:251)
ReadTime(t) ==
    /\ pc[t] = "read_time"
    /\ SetLoc(t, [loc[t] EXCEPT !.reg = stats.total_processing_time])
    /\ Goto(t, "write_time")
    /\ UNCHANGED <<stats, clock, okLog>> /\ UNCHANGED Shared

WriteTime(t) ==
    /\ pc[t] = "write_time"
    /\ stats' = [stats EXCEPT !.total_processing_time = loc[t].reg + loc[t].dt]
    /\ Goto(t, "append")
    /\ UNCHANGED <<loc, clock, okLog>> /\ UNCHANGED Shared

\* stats["predictions_history"].append({...})             (client.py:254-259)
AppendHistory(t) ==
    /\ pc[t] = "append"
    /\ stats' = [stats EXCEPT !.predictions_history =
                    Append(@, HistoryRecord(loc[t].text, loc[t].sentiment,
                                            loc[t].confidence, clock))]
    /\ Goto(t, "trim")
    /\ UNCHANGED <<loc, clock, okLog>> /\ UNCHANGED Shared

\* if len(history) > 10: history.pop(0)                   (client.py:260-261)
Trim(t) ==
    /\ pc[t] = "trim"
    /\ stats' = IF Len(stats.predictions_history) > HistoryCap
                THEN [stats EXCEPT !.predictions_history = Tail(@)]
                ELSE stats
    /\ Goto(t, "finish")
    /\ UNCHANGED <<loc, clock, okLog>> /\ UNCHANGED Shared

Finish(t) ==
    /\ pc[t] = "finish"
    /\ okLog' = Append(okLog,
                       [ use_fhe |-> loc[t].use_fhe, text |-> TextShort,
                         idx |-> loc[t].idx, sentiment |-> loc[t].sentiment,
                         confidence |-> loc[t].confidence, dt |-> loc[t].dt,
                         now |-> clock ])
    /\ Goto(t, "done")
    /\ UNCHANGED <<stats, loc, clock>> /\ UNCHANGED Shared

ThreadStep ==
    \E t \in Threads :
       \/ Start(t) \/ ReadTotal(t) \/ WriteTotal(t) \/ ReadCount(t) \/ WriteCount(t)
       \/ TotalConf(t) \/ Divide(t) \/ WriteAvg(t) \/ ReadTime(t) \/ WriteTime(t)
       \/ AppendHistory(t) \/ Trim(t) \/ Finish(t)

NextConc == ConcLoad \/ ThreadStep

SpecConc == Init /\ [][NextConc]_vars

(***************************************************************************)
(* The FHE simulator (fhe_simulator.py).  A float is an exact fraction     *)
(* <<numerator, denominator>> in lowest terms, an array is a sequence of   *)
(* rows.  The integers stay far below the int32 range for the inputs used. *)
(***************************************************************************)
RECURSIVE Pow2(_)
Pow2(n) == IF n = 0 THEN 1 ELSE 2 * Pow2(n - 1)

Rat(k) == <<k, 1>>
RatAdd(a, b) == Frac(a[1] * b[2] + b[1] * a[2], a[2] * b[2])
RatSub(a, b) == Frac(a[1] * b[2] - b[1] * a[2], a[2] * b[2])
RatMul(a, b) == Frac(a[1] * b[1], a[2] * b[2])
RatDiv(a, b) ==
    IF b[1] > 0 THEN Frac(a[1] * b[2], a[2] * b[1])
                ELSE Frac(-(a[1] * b[2]), a[2] * (-b[1]))
RatLess(a, b) == a[1] * b[2] < b[1] * a[2]
RatLeq(a, b) == a[1] * b[2] <= b[1] * a[2]
RatAbs(a) == <<Abs(a[1]), a[2]>>

\* .astype(np.int32) of a float: the fraction is dropped, toward zero
Trunc(a) == IF a[1] >= 0 THEN a[1] \div a[2] ELSE -((-a[1]) \div a[2])

Rows(M) == 1..Len(M)
Cols(M) == 1..Len(M[1])
Shape(M) == <<Len(M), Len(M[1])>>
Elements(M) == {M[p[1]][p[2]] : p \in Rows(M) \X Cols(M)}

\* data.min() and data.max()
ArrayMin(M) == CHOOSE a \in Elements(M) : \A b \in Elements(M) : RatLeq(a, b)
ArrayMax(M) == CHOOSE a \in Elements(M) : \A b \in Elements(M) : RatLeq(b, a)

\* the scale taken as 2 ** n_bits
FHESimulatorPow2(n_bits, public_key, secret_key) ==
    [ n_bits |-> n_bits, quantization_scale |-> Pow2(n_bits),
      public_key |-> public_key, secret_key |-> secret_key ]

\* fhe_simulator.py:17-28
FHESimulator(n_bits, public_key, secret_key) ==
    [ n_bits |-> n_bits, quantization_scale |-> Pow2(n_bits) - 1,
      public_key |-> public_key, secret_key |-> secret_key ]

\* the normalisation applied to a constant array as well
QuantizeUnnormalized(self, data) ==
    [ quantized |-> [i \in Rows(data) |-> [j \in Cols(data) |->
                        Trunc(RatMul(data[i][j], Rat(self.quantization_scale)))]],
      data_min |-> ArrayMin(data), data_max |-> ArrayMax(data), divided |-> FALSE,
      self |-> self ]

\* the range kept on the instance for the later dequantize
QuantizeStoring(self, data) ==
    LET data_min == ArrayMin(data)
        data_max == ArrayMax(data)
        span == RatSub(data_max, data_min)
        divides == RatLess(Rat(0), span)
        normalized == [i \in Rows(data) |-> [j \in Cols(data) |->
                          IF divides THEN RatDiv(RatSub(data[i][j], data_min), span)
                                     ELSE data[i][j]]]
    IN  [ quantized |-> [i \in Rows(data) |-> [j \in Cols(data) |->
                            Trunc(RatMul(normalized[i][j], Rat(self.quantization_scale)))]],
          data_min |-> data_min, data_max |-> data_max, divided |-> divides,
          self |-> [ n_bits |-> self.n_bits, quantization_scale |-> self.quantization_scale,
                     public_key |-> self.public_key, secret_key |-> self.secret_key,
                     data_min |-> data_min, data_max |-> data_max ] ]

\* fhe_simulator.py:30-50; `divided` records whether the division was made and
\* `self` is the instance as the method leaves it
quantize(self, data) ==
    LET data_min == ArrayMin(data)
        data_max == ArrayMax(data)
        span == RatSub(data_max, data_min)
        divides == RatLess(Rat(0), span)
        normalized == [i \in Rows(data) |-> [j \in Cols(data) |->
                          IF divides THEN RatDiv(RatSub(data[i][j], data_min), span)
                                     ELSE data[i][j]]]
    IN  [ quantized |-> [i \in Rows(data) |-> [j \in Cols(data) |->
                            Trunc(RatMul(normalized[i][j], Rat(self.quantization_scale)))]],
          data_min |-> data_min, data_max |-> data_max, divided |-> divides,
          self |-> self ]

\* the minimum is not added back
DequantizeNoOffset(self, quantized, data_min, data_max) ==
    [i \in Rows(quantized) |-> [j \in Cols(quantized) |->
        RatMul(RatDiv(Rat(quantized[i][j]), Rat(self.quantization_scale)),
               RatSub(data_max, data_min))]]

\* fhe_simulator.py:52-68
dequantize(self, quantized, data_min, data_max) ==
    [i \in Rows(quantized) |-> [j \in Cols(quantized) |->
        RatAdd(RatMul(RatDiv(Rat(quantized[i][j]), Rat(self.quantization_scale)),
                      RatSub(data_max, data_min)),
               data_min)]]

\* np.random.randint(lo, hi + 1, size=M.shape): every array of that shape
NoiseLike(M, lo, hi) == [Rows(M) -> [Cols(M) -> lo..hi]]

\* the noise counted twice
EncryptDouble(data, noise) ==
    [ encrypted |-> [i \in Rows(data) |-> [j \in Cols(data) |->
                        data[i][j] + 2 * noise[i][j]]],
      metadata  |-> [ original_shape |-> Shape(data), encryption_method |-> "simulated" ] ]

\* fhe_simulator.py:70-93
encrypt(data, noise) ==
    [ encrypted |-> [i \in Rows(data) |-> [j \in Cols(data) |-> data[i][j] + noise[i][j]]],
      metadata  |-> [ original_shape |-> Shape(data), encryption_method |-> "simulated" ] ]

\* the noise counted twice
DecryptDouble(encrypted, metadata, noise) ==
    [i \in Rows(encrypted) |-> [j \in Cols(encrypted) |->
        encrypted[i][j] - 2 * noise[i][j]]]

\* fhe_simulator.py:95-111
decrypt(encrypted, metadata, noise) ==
    [i \in Rows(encrypted) |-> [j \in Cols(encrypted) |-> encrypted[i][j] - noise[i][j]]]

\* np.sum(encrypted_data, axis=-1, keepdims=True)
RowSums(M) == [i \in Rows(M) |-> <<SumSeq(M[i])>>]

\* the computation left out: the input is handed on as it is
ComputeSkipped(encrypted_data, operation, noise) == encrypted_data

\* fhe_simulator.py:113-136
compute_on_encrypted(encrypted_data, operation, noise) ==
    IF operation = "predict"
    THEN LET result == RowSums(encrypted_data)
         IN  [i \in Rows(result) |-> <<result[i][1] + noise[i][1]>>]
    ELSE encrypted_data

RECURSIVE RatSum(_)
RatSum(row) == IF row = <<>> THEN Rat(0) ELSE RatAdd(Head(row), RatSum(Tail(row)))

\* model.predict: a deterministic classifier giving one class per row; `model`
\* is its threshold on the sum of the features of the row
ModelPredict(model, X) ==
    [i \in Rows(X) |-> IF RatLess(RatSum(X[i]), Rat(model)) THEN 0 ELSE 1]

\* the classifier run on the dequantized result of the pipeline
PredictionOfDequantized(model, X, dequantized) == ModelPredict(model, dequantized)

\* fhe_simulator.py:179-181
PredictionOf(model, X, dequantized) == ModelPredict(model, X)

KeyTokens == {"key1", "key2"}
SimBits == {1, DefaultBits}
SimValues == {Rat(0), <<1, 2>>, Rat(2)}
SimInputs == [1..1 -> [1..2 -> SimValues]]
Models == {1, 2}
QuantValues == {<<-3, 2>>, <<-1, 2>>, Rat(0), <<1, 4>>, Rat(1), Rat(3)}
QuantInputs == [1..1 -> [1..3 -> QuantValues]] \cup [1..2 -> [1..1 -> QuantValues]]

ClientVars == <<processor, model_api, stats, steps, trace, clock, okLog, lastCall, pc, loc>>
EmbedVars == <<tproc, emb>>

\* FHESimulator(n_bits): two independent draws of secrets.token_bytes(32)
Construct(bits) ==
    /\ fhe = NoSimulator
    /\ \E n_bits \in bits, public_key \in KeyTokens :
          \E secret_key \in KeyTokens \ {public_key} :
             fhe' = FHESimulator(n_bits, public_key, secret_key)
    /\ UNCHANGED run /\ UNCHANGED ClientVars /\ UNCHANGED EmbedVars

\* a call enters with its arguments; the locals of the previous call are gone
Begin(inputs, models) ==
    /\ fhe # NoSimulator
    /\ run.stage \in {"idle", "returned"}
    /\ run.runs < MaxRuns
    /\ \E X \in inputs, model \in models :
          run' = [NoRun EXCEPT !.stage = "called", !.runs = run.runs + 1,
                               !.model = model, !.X = X, !.self0 = fhe]
    /\ UNCHANGED fhe /\ UNCHANGED ClientVars /\ UNCHANGED EmbedVars

\* fhe_simulator.py:159
StepQuantize ==
    /\ run.stage = "called"
    /\ LET q == quantize(fhe, run.X)
       IN  /\ run' = [run EXCEPT !.stage = "quantized", !.quantized = q.quantized,
                                  !.data_min = q.data_min, !.data_max = q.data_max,
                                  !.divided = q.divided,
                                  !.calls = Append(@, "quantize")]
           /\ fhe' = q.self
    /\ UNCHANGED ClientVars /\ UNCHANGED EmbedVars

\* fhe_simulator.py:162
StepEncrypt ==
    /\ run.stage = "quantized"
    /\ \E noise \in NoiseLike(run.quantized, -2, 2) :
          LET e == encrypt(run.quantized, noise)
          IN  run' = [run EXCEPT !.stage = "encrypted", !.encrypted = e.encrypted,
                                 !.metadata = e.metadata,
                                 !.calls = Append(@, "encrypt")]
    /\ UNCHANGED fhe /\ UNCHANGED ClientVars /\ UNCHANGED EmbedVars

\* fhe_simulator.py:168
StepCompute ==
    /\ run.stage = "encrypted"
    /\ \E noise \in NoiseLike(RowSums(run.encrypted), -1, 1) :
          run' = [run EXCEPT !.stage = "computed",
                             !.encrypted_result =
                                 compute_on_encrypted(run.encrypted, "predict", noise),
                             !.calls = Append(@, "compute_on_encrypted")]
    /\ UNCHANGED fhe /\ UNCHANGED ClientVars /\ UNCHANGED EmbedVars

\* fhe_simulator.py:171
StepDecrypt ==
    /\ run.stage = "computed"
    /\ \E noise \in NoiseLike(run.encrypted_result, -2, 2) :
          run' = [run EXCEPT !.stage = "decrypted",
                             !.decrypted = decrypt(run.encrypted_result, run.metadata, noise),
                             !.calls = Append(@, "decrypt")]
    /\ UNCHANGED fhe /\ UNCHANGED ClientVars /\ UNCHANGED EmbedVars

\* fhe_simulator.py:174
StepDequantize ==
    /\ run.stage = "decrypted"
    /\ run' = [run EXCEPT !.stage = "dequantized",
                          !.dequantized = dequantize(fhe, run.decrypted,
                                                     run.data_min, run.data_max),
                          !.calls = Append(@, "dequantize")]
    /\ UNCHANGED fhe /\ UNCHANGED ClientVars /\ UNCHANGED EmbedVars

\* fhe_simulator.py:179-181
StepPredict ==
    /\ run.stage = "dequantized"
    /\ run' = [run EXCEPT !.stage = "returned",
                          !.prediction = PredictionOf(run.model, run.X, run.dequantized),
                          !.calls = Append(@, "predict")]
    /\ UNCHANGED fhe /\ UNCHANGED ClientVars /\ UNCHANGED EmbedVars

SimConstruct == Construct(SimBits)
SimBegin == Begin(SimInputs, Models)

NextSim ==
    \/ SimConstruct \/ SimBegin \/ StepQuantize \/ StepEncrypt \/ StepCompute
    \/ StepDecrypt \/ StepDequantize \/ StepPredict

SpecSim == Init /\ [][NextSim]_vars

(***************************************************************************)
(* quantize followed by dequantize, on every array of QuantInputs and      *)
(* every precision of 1..MaxBits.                                          *)
(***************************************************************************)
QuantConstruct == Construct(1..MaxBits)
QuantBegin == Begin(QuantInputs, {0})

RoundTripQuantize == StepQuantize

RoundTripDequantize ==
    /\ run.stage = "quantized"
    /\ run' = [run EXCEPT !.stage = "returned",
                          !.dequantized = dequantize(fhe, run.quantized,
                                                     run.data_min, run.data_max),
                          !.calls = Append(@, "dequantize")]
    /\ UNCHANGED fhe /\ UNCHANGED ClientVars /\ UNCHANGED EmbedVars

NextQuant == QuantConstruct \/ QuantBegin \/ RoundTripQuantize \/ RoundTripDequantize

SpecQuant == Init /\ [][NextQuant]_vars

(***************************************************************************)
(* encrypt followed by decrypt, on every integer array of CryptInputs.     *)
(***************************************************************************)
CryptValues == 0..2
CryptInputs == [1..1 -> [1..2 -> CryptValues]] \cup [1..2 -> [1..1 -> CryptValues]]

CryptConstruct == Construct(SimBits)

CryptBegin ==
    /\ fhe # NoSimulator
    /\ run.stage \in {"idle", "returned"}
    /\ run.runs < MaxRuns
    /\ \E q \in CryptInputs :
          run' = [NoRun EXCEPT !.stage = "quantized", !.runs = run.runs + 1,
                               !.quantized = q, !.self0 = fhe]
    /\ UNCHANGED fhe /\ UNCHANGED ClientVars /\ UNCHANGED EmbedVars

CryptEncrypt == StepEncrypt

CryptDecrypt ==
    /\ run.stage = "encrypted"
    /\ \E noise \in NoiseLike(run.encrypted, -2, 2) :
          run' = [run EXCEPT !.stage = "returned",
                             !.decrypted = decrypt(run.encrypted, run.metadata, noise),
                             !.calls = Append(@, "decrypt")]
    /\ UNCHANGED fhe /\ UNCHANGED ClientVars /\ UNCHANGED EmbedVars

NextCrypt == CryptConstruct \/ CryptBegin \/ CryptEncrypt \/ CryptDecrypt

SpecCrypt == Init /\ [][NextCrypt]_vars

(***************************************************************************)
(* The text processor (text_processor.py).  A string is a sequence of      *)
(* one-character strings.  The tokenizer and the encoder are the           *)
(* collaborators of the class: the tokenizer gives one id per character    *)
(* between the ids of <s> and </s>, and the pooled vector the encoder      *)
(* gives for a row of a batch is an uninterpreted function of that row's   *)
(* ids and, while the encoder is in training mode, of its dropout draw.    *)
(***************************************************************************)
Whitespace == {" ", "\t", "\n"}

StrItem(chars) == [kind |-> "str", chars |-> chars, value |-> 0]
IntItem(n) == [kind |-> "int", chars |-> <<>>, value |-> n]
NoneItem == [kind |-> "none", chars |-> <<>>, value |-> 0]

Digits == <<"0", "1", "2", "3", "4", "5", "6", "7", "8", "9">>

\* str(text), for the values the inputs hold
Str(item) ==
    CASE item.kind = "str" -> item.chars
      [] item.kind = "int" -> <<Digits[item.value + 1]>>
      [] OTHER -> <<"N", "o", "n", "e">>

\* the length of the word t begins with
RECURSIVE WordLen(_)
WordLen(t) == IF t = <<>> \/ Head(t) \in Whitespace THEN 0 ELSE 1 + WordLen(Tail(t))

\* text.split()
RECURSIVE Split(_)
Split(t) ==
    IF t = <<>> THEN <<>>
    ELSE IF Head(t) \in Whitespace THEN Split(Tail(t))
    ELSE <<SubSeq(t, 1, WordLen(t))>> \o Split(SubSeq(t, WordLen(t) + 1, Len(t)))

\* " ".join(words)
RECURSIVE Join(_)
Join(words) ==
    IF words = <<>> THEN <<>>
    ELSE IF Len(words) = 1 THEN words[1]
    ELSE words[1] \o <<" ">> \o Join(Tail(words))

\* the empty text is handed on as it is
NormalizeNoPlaceholder(item) == Join(Split(Str(item)))

\* text_processor.py:72-80
NormalizeText(item) ==
    LET text == Join(Split(Str(item)))
    IN  IF Len(Strip(text)) = 0 THEN <<" ">> ELSE text

BosId == 0
EosId == 2
TokenId(c) == CASE c = " " -> 3 [] c = "a" -> 4 [] c = "b" -> 5 [] OTHER -> 6

\* tokenizer.encode(text, truncation=True, max_length=512, padding=False)
Encode(text) ==
    LET kept == SubSeq(text, 1, Min(Len(text), MaxLength - 2))
    IN  <<BosId>> \o [i \in 1..Len(kept) |-> TokenId(kept[i])] \o <<EosId>>

\* seq[lo:hi] with one element too few
PySliceShort(seq, lo, hi) == SubSeq(seq, lo + 1, Min(hi, Len(seq)) - 1)

\* seq[lo:hi] for 0 <= lo <= hi
PySlice(seq, lo, hi) == SubSeq(seq, lo + 1, Min(hi, Len(seq)))

\* max(t.shape[1] for t in batch)
RECURSIVE BatchMaxLen(_)
BatchMaxLen(batch) ==
    IF batch = <<>> THEN 0 ELSE Max(Len(Head(batch)), BatchMaxLen(Tail(batch)))

\* the sequence filled with the id of <pad>
PadToPadId(tokens, max_len) ==
    IF Len(tokens) < max_len
    THEN tokens \o [i \in 1..(max_len - Len(tokens)) |-> 1]
    ELSE tokens

\* text_processor.py:107-109
PadTo(tokens, max_len) ==
    IF Len(tokens) < max_len
    THEN tokens \o [i \in 1..(max_len - Len(tokens)) |-> FillId]
    ELSE tokens

\* text_processor.py:102-113
BatchTensor(batch) == [j \in 1..Len(batch) |-> PadTo(batch[j], BatchMaxLen(batch))]

\* text_processor.py:96-97: the batches of the loop over range(start, len, batch_size)
RECURSIVE Batches(_, _, _)
Batches(tokenized, start, batch_size) ==
    IF start >= Len(tokenized) THEN <<>>
    ELSE <<BatchTensor(PySlice(tokenized, start, start + batch_size))>>
             \o Batches(tokenized, start + batch_size, batch_size)

\* text_processor.py:117-128: one pooled vector per row of the batch
Pooled(batch_tensor, dropout) ==
    [j \in 1..Len(batch_tensor) |-> [ids |-> batch_tensor[j], dropout |-> dropout]]

RECURSIVE Concatenate(_)
Concatenate(arrays) ==
    IF arrays = <<>> THEN <<>> ELSE Head(arrays) \o Concatenate(Tail(arrays))

\* the encoder left in training mode
TextProcessorTraining(device) == [ device |-> device, training |-> TRUE ]

\* text_processor.py:16-33: model.eval() ends training mode
TextProcessor(device) == [ device |-> device, training |-> FALSE ]

\* the dropout draws the encoder can make in a forward pass
DropoutDraws(self) == IF self.training THEN {0, 1} ELSE {0}

\* text_processor.py:35-135; range() raises on a zero step and np.concatenate
\* raises on an empty list of batches
text_to_tensor(self, is_str, texts, batch_size, dropout) ==
    LET list == IF is_str THEN <<texts>> ELSE texts
        normalized == [i \in 1..Len(list) |-> NormalizeText(list[i])]
        tokenized == [i \in 1..Len(list) |-> Encode(normalized[i])]
        batches == IF batch_size > 0 THEN Batches(tokenized, 0, batch_size) ELSE <<>>
        outputs == [b \in 1..Len(batches) |-> Pooled(batches[b], dropout)]
    IN  [ raises  |-> batch_size = 0 \/ outputs = <<>>,
          handed  |-> normalized,
          batches |-> IF batch_size = 0 THEN <<>> ELSE batches,
          rows    |-> IF batch_size = 0 THEN <<>> ELSE Concatenate(outputs),
          self    |-> self ]

EmbedItems ==
    { StrItem(<<>>), StrItem(<<" ", " ", " ">>), StrItem(<<"a">>),
      StrItem(<<"a", " ", "\t", "b">>), IntItem(7), NoneItem }
EmbedLists == UNION {[1..k -> EmbedItems] : k \in 0..MaxTexts}
BatchSizes == 0..MaxBatch
Devices == {"cpu", "cuda:0"}

FhePart == <<fhe, run>>

\* TextProcessor(): the device is the one torch finds
ProcessorInit ==
    /\ tproc = NoProcessor
    /\ \E device \in Devices : tproc' = TextProcessor(device)
    /\ UNCHANGED emb /\ UNCHANGED ClientVars /\ UNCHANGED FhePart

CallTextToTensor(is_str, texts, batch_size, again) ==
    \E dropout \in DropoutDraws(tproc) :
       LET r == text_to_tensor(tproc, is_str, texts, batch_size, dropout)
       IN  /\ emb' = [ calls |-> emb.calls + 1, again |-> again, is_str |-> is_str,
                       texts |-> texts, batch_size |-> batch_size,
                       raises |-> r.raises, handed |-> r.handed,
                       batches |-> r.batches, rows |-> r.rows,
                       prev_rows |-> emb.rows,
                       self0 |-> IF emb.calls = 0 THEN tproc ELSE emb.self0 ]
           /\ tproc' = r.self

\* processor.text_to_tensor(texts, batch_size) on a list
EmbedList ==
    /\ tproc # NoProcessor /\ emb.calls = 0
    /\ \E texts \in EmbedLists, batch_size \in BatchSizes :
          CallTextToTensor(FALSE, texts, batch_size, FALSE)
    /\ UNCHANGED ClientVars /\ UNCHANGED FhePart

\* processor.text_to_tensor(text) on a bare string (train_model_simple.py:148)
EmbedString ==
    /\ tproc # NoProcessor /\ emb.calls = 0
    /\ \E text \in {i \in EmbedItems : i.kind = "str"}, batch_size \in BatchSizes :
          CallTextToTensor(TRUE, text, batch_size, FALSE)
    /\ UNCHANGED ClientVars /\ UNCHANGED FhePart

\* the same call made once more (test_model.py:79)
EmbedAgain ==
    /\ emb.calls > 0 /\ emb.calls < MaxEmbedCalls
    /\ CallTextToTensor(emb.is_str, emb.texts, emb.batch_size, TRUE)
    /\ UNCHANGED ClientVars /\ UNCHANGED FhePart

NextEmbed == ProcessorInit \/ EmbedList \/ EmbedString \/ EmbedAgain

SpecEmbed == Init /\ [][NextEmbed]_vars

(***************************************************************************)
(* Properties.                                                             *)
(***************************************************************************)
BlankTexts == {TextEmpty, TextBlank}
NonBlankTexts == {TextShort, TextLong}

\* the last call got as far as model_api.predict(X)
CalledPredict ==
    /\ lastCall.made
    /\ processor = "Loaded" /\ model_api \in {"NoProba", "WithProba"}
    /\ lastCall.text \in NonBlankTexts /\ ~lastCall.env.embedRaises

PredictRaised == CalledPredict /\ lastCall.env.pred.raises
PredictReturned(v) ==
    CalledPredict /\ ~lastCall.env.pred.raises /\ lastCall.env.pred.value = v

\* the last call got as far as model_api.predict_proba(X), which raised
ProbaRaisedInCall ==
    /\ CalledPredict /\ ~lastCall.env.pred.raises
    /\ lastCall.env.pred.value \in -2..2
    /\ model_api = "WithProba" /\ lastCall.env.proba.raises

IsPrediction(f) == f.kind \in {"PREDICTION RESULT", "RESULT (Clear Mode)"}

Confidences(log) == [i \in 1..Len(log) |-> log[i].confidence]

\* avg equals the arithmetic mean of the confidences of `log`
IsMeanOf(avg, log) ==
    IF Len(log) = 0 THEN avg = <<0, 1>>
    ELSE avg[1] * Len(log) = SumSeq(Confidences(log)) * avg[2]

\* C1: in every state reached by a sequence of analyze calls,
\* negative_count + positive_count = total_predictions.
C1_CountsAddUp ==
    stats.negative_count + stats.positive_count = stats.total_predictions

C1_Witness ==
    /\ stats.total_predictions = 2
    /\ \E i, j \in 1..Len(okLog) :
          /\ okLog[i].use_fhe /\ ~okLog[j].use_fhe
          /\ okLog[i].sentiment = "Unknown"

\* C2: after n successful calls from the empty statistics, in any mix of modes,
\* total_predictions = n and avg_confidence is the arithmetic mean of the n
\* confidences the calls produced.
C2_RunningMeanIsMean ==
    /\ stats.total_predictions = Len(okLog)
    /\ IsMeanOf(stats.avg_confidence, okLog)

C2_Witness ==
    /\ Len(okLog) >= 3
    /\ \E i, j \in 1..Len(okLog) :
          /\ okLog[i].use_fhe /\ ~okLog[j].use_fhe
          /\ okLog[i].confidence # okLog[j].confidence
    /\ stats.avg_confidence[2] > 1

\* the history record a successful call is expected to leave
RecordOf(e) ==
    [ text |-> DisplayText(Strip(e.text)), sentiment |-> e.sentiment,
      confidence |-> e.confidence, timestamp |-> e.now ]

LastRecords(log, n) == [i \in 1..n |-> RecordOf(log[Len(log) - n + i])]

\* C3: after more than 10 successful calls, in any mode, predictions_history
\* has exactly 10 records: those of the 10 most recent successful calls,
\* oldest first.
C3_HistoryHoldsLastTen ==
    Len(okLog) > HistoryCap =>
        stats.predictions_history = LastRecords(okLog, HistoryCap)

\* C4: a call with an empty or whitespace-only text returns a non-null error,
\* calls neither the embedder nor the classifier, and leaves the statistics
\* unchanged, in both modes.
C4_BlankTextRejected ==
    (lastCall.made /\ lastCall.text \in BlankTexts) =>
        /\ steps.error # ErrNone
        /\ trace = <<>>
        /\ stats = lastCall.before

C4_Witness ==
    /\ lastCall.made /\ lastCall.text = TextBlank
    /\ processor = "Loaded" /\ model_api # None
    /\ steps.error.msg = "Please enter a text to analyze."
    /\ stats.total_predictions > 0
    /\ Len(stats.predictions_history) > 0

\* C5 as stated: if the classifier raises during predict or during
\* predict_proba, the statistics after the call equal those before it.
C5_RaiseLeavesStats ==
    (PredictRaised \/ ProbaRaisedInCall) => stats = lastCall.before

\* C5 as amended: if the classifier raises during predict, the statistics after
\* the call equal those before it, in both modes; if predict succeeds and
\* predict_proba raises, the call is recorded as a prediction with
\* probabilities 0.0/0.0 and confidence 0.0.
C5_PredictRaiseLeavesStats ==
    /\ PredictRaised => stats = lastCall.before
    /\ ProbaRaisedInCall =>
          /\ stats.total_predictions = lastCall.before.total_predictions + 1
          /\ IsPrediction(steps.final_result)
          /\ steps.final_result.confidence = 0
          /\ steps.final_result.proba_negative = 0
          /\ steps.final_result.proba_positive = 0

C5_Witness ==
    /\ PredictRaised
    /\ trace = <<"text_to_tensor", "predict">>
    /\ stats.total_predictions > 0
    /\ Len(stats.predictions_history) > 0

\* C6: if the classifier raises during predict, the returned error field is
\* non-null and carries the cause, in both modes.
C6_PredictRaiseSetsError ==
    PredictRaised =>
        /\ steps.error # ErrNone
        /\ steps.error.cause = ClassifierFailure
        /\ analyze_sentiment_local(steps).from = "error"

\* C7: with the classifier or the text processor not loaded, a call with a
\* non-blank text returns a non-null error, never reaches predict, and leaves
\* the statistics unchanged.
C7_NotLoadedRejected ==
    ( /\ lastCall.made /\ lastCall.text \in NonBlankTexts
      /\ (processor = None \/ model_api = None) )
    => /\ steps.error # ErrNone
       /\ \A i \in 1..Len(trace) : trace[i] = "text_to_tensor"
       /\ stats = lastCall.before

C7_Witness ==
    /\ lastCall.made /\ lastCall.text \in NonBlankTexts
    /\ processor = "Loaded" /\ model_api = None
    /\ steps.error.msg = "ERROR: Model not loaded"
    /\ trace = <<"text_to_tensor">>

\* C8: classifier output 0 yields the label Negative and output 1 the label
\* Positive, in both modes, with predict_proba present, absent or raising.
C8_LabelOfZeroAndOne ==
    /\ PredictReturned(0) =>
          /\ IsPrediction(steps.final_result) /\ steps.error = ErrNone
          /\ steps.final_result.sentiment = "Negative"
    /\ PredictReturned(1) =>
          /\ IsPrediction(steps.final_result) /\ steps.error = ErrNone
          /\ steps.final_result.sentiment = "Positive"

C8_Witness ==
    /\ PredictReturned(1) /\ ~lastCall.use_fhe
    /\ model_api = "WithProba" /\ lastCall.env.proba.raises
    /\ steps.final_result.sentiment = "Positive"
    /\ Len(okLog) = 2
    /\ okLog[1].idx = 0 /\ okLog[1].use_fhe /\ okLog[1].sentiment = "Negative"

\* C9: every integer classifier output other than 0 and 1, negative ones
\* included, yields the label Unknown and never an error.
C9_OtherOutputsUnknown ==
    \A v \in (-3..2) \ {0, 1} :
       PredictReturned(v) =>
          /\ IsPrediction(steps.final_result) /\ steps.error = ErrNone
          /\ steps.final_result.sentiment = "Unknown"

Quiescent == \A t \in Threads : pc[t] \in {"idle", "done"}

\* C10: the statistics update is atomic: with concurrent calls no increment is
\* lost, the counts add up to the total, and the average is the mean of the
\* confidences of the completed calls.
C10_AtomicUpdate ==
    Quiescent =>
        /\ stats.total_predictions = Len(okLog)
        /\ stats.negative_count + stats.positive_count = stats.total_predictions
        /\ IsMeanOf(stats.avg_confidence, okLog)

(***************************************************************************)
(* Properties of the statistics update and of the returned probabilities.  *)
(***************************************************************************)
\* the last analyze call updated the statistics
LastSucceeded == lastCall.made /\ okLog # <<>> /\ okLog[Len(okLog)].now = clock
LastOk == okLog[Len(okLog)]

AppendBounded(h, rec) ==
    IF Len(h) >= HistoryCap THEN Tail(h) \o <<rec>> ELSE h \o <<rec>>

\* C11: every successful call, in privacy mode and in clear mode alike, appends
\* exactly one record (timestamp, truncated text, label, confidence) for that
\* call to predictions_history, besides updating the counters and the average.
C11_EverySuccessAppends ==
    LastSucceeded =>
        /\ stats.predictions_history =
               AppendBounded(lastCall.before.predictions_history, RecordOf(LastOk))
        /\ stats.total_predictions = lastCall.before.total_predictions + 1

CountLabelled(log, label) ==
    Cardinality({i \in 1..Len(log) : log[i].sentiment = label})

\* C12: negative_count is the number of calls labelled Negative and
\* positive_count the number of calls labelled Positive.
C12_CountsFollowLabels ==
    /\ stats.negative_count = CountLabelled(okLog, "Negative")
    /\ stats.positive_count = CountLabelled(okLog, "Positive")

\* C13: total_processing_time grows only by the non-negative duration of the
\* classifier invocation of a successful privacy-mode call; a clear-mode call,
\* successful or not, and a failed call leave it unchanged.
C13_TimeOnlyFromPrivacy ==
    lastCall.made =>
        /\ lastCall.env.dt >= 0
        /\ stats.total_processing_time =
               lastCall.before.total_processing_time +
                   (IF LastSucceeded /\ lastCall.use_fhe THEN lastCall.env.dt ELSE 0)
        /\ ~lastCall.use_fhe =>
               stats.total_processing_time = lastCall.before.total_processing_time

C13_Witness ==
    /\ LastSucceeded /\ ~lastCall.use_fhe
    /\ Len(okLog) = 2 /\ okLog[1].use_fhe /\ okLog[1].dt > 0
    /\ stats.total_processing_time = okLog[1].dt

\* the last call succeeded with a classifier that has no predict_proba
NoProbaSuccess(use_fhe) ==
    /\ LastSucceeded /\ lastCall.use_fhe = use_fhe
    /\ model_api = "NoProba"

\* C14 as stated: a clear-mode call with a classifier without predict_proba
\* returns proba_negative = proba_positive = 0.5 and confidence 50.0.
C14_ClearFallbackHalf ==
    NoProbaSuccess(FALSE) =>
        /\ steps.final_result.proba_negative = 50
        /\ steps.final_result.proba_positive = 50
        /\ steps.final_result.confidence = 5000

\* C14 as amended: a clear-mode call with a classifier without predict_proba
\* returns proba_negative = proba_positive = 0.0 and confidence 0.0.
C14_ClearFallbackZero ==
    NoProbaSuccess(FALSE) =>
        /\ IsPrediction(steps.final_result)
        /\ steps.final_result.proba_negative = 0
        /\ steps.final_result.proba_positive = 0
        /\ steps.final_result.confidence = 0

C14_Witness ==
    /\ NoProbaSuccess(FALSE)
    /\ steps.final_result.kind = "RESULT (Clear Mode)"
    /\ steps.final_result.sentiment = "Positive"

\* C15: a privacy-mode call with a classifier without predict_proba returns
\* 0.0/0.0 and confidence 0.0, still counts as successful, and 0.0 is the
\* confidence fed into avg_confidence and into the history record.
C15_PrivacyFallbackZero ==
    NoProbaSuccess(TRUE) =>
        /\ IsPrediction(steps.final_result) /\ steps.error = ErrNone
        /\ steps.final_result.proba_negative = 0
        /\ steps.final_result.proba_positive = 0
        /\ steps.final_result.confidence = 0
        /\ stats.total_predictions = lastCall.before.total_predictions + 1
        /\ stats.avg_confidence[1] * stats.total_predictions * lastCall.before.avg_confidence[2]
               = lastCall.before.avg_confidence[1] * (stats.total_predictions - 1)
                     * stats.avg_confidence[2]
        /\ stats.predictions_history # <<>>
        /\ stats.predictions_history[Len(stats.predictions_history)].confidence = 0

C15_Witness ==
    /\ NoProbaSuccess(TRUE)
    /\ steps.final_result.kind = "PREDICTION RESULT"
    /\ stats.total_predictions = 1
    /\ Len(stats.predictions_history) = 1

\* predict_proba was present and returned a pair in the last call
ProbaReturnedInCall ==
    LastSucceeded /\ model_api = "WithProba" /\ ~lastCall.env.proba.raises

InRanges(f) ==
    /\ f.confidence \in 0..(100 * PercentFactor)
    /\ f.proba_negative \in 0..100
    /\ f.proba_positive \in 0..100

\* C16 as stated: every successful result has confidence in [0,100] and
\* probabilities in [0,1] that sum to 1, also when predict_proba is absent or
\* raises.
C16_ProbabilitiesSumToOne ==
    LastSucceeded =>
        /\ InRanges(steps.final_result)
        /\ steps.final_result.proba_negative + steps.final_result.proba_positive = 100

\* C16 as amended: every successful result has confidence in [0,100] and
\* probabilities in [0,1]; they sum to 1 when predict_proba is present and
\* returns a pair summing to 1, and are both 0.0, with confidence 0.0, when
\* predict_proba is absent or raises.
C16_ProbabilitiesInRange ==
    LastSucceeded =>
        /\ InRanges(steps.final_result)
        /\ ProbaReturnedInCall =>
               steps.final_result.proba_negative + steps.final_result.proba_positive = 100
        /\ ~ProbaReturnedInCall =>
               /\ steps.final_result.proba_negative = 0
               /\ steps.final_result.proba_positive = 0
               /\ steps.final_result.confidence = 0

C16_Witness ==
    /\ ProbaReturnedInCall
    /\ steps.final_result.confidence = 90 * PercentFactor
    /\ Len(okLog) = 2 /\ okLog[1].confidence = 0

RoundTripDone == run.stage = "returned" /\ run.model = 0
Scale == Rat(fhe.quantization_scale)
Span == RatSub(run.data_max, run.data_min)
RoundTripError(i, j) == RatAbs(RatSub(run.dequantized[i][j], run.X[i][j]))
Cells == Rows(run.X) \X Cols(run.X)

\* C18: for data_max > data_min and n_bits in 1..8, dequantize(quantize(x))
\* differs from x by at most (data_max - data_min) / scale in every element.
C18_RoundTripWithinSpan ==
    RoundTripDone /\ RatLess(run.data_min, run.data_max) =>
        \A c \in Cells : RatLeq(RoundTripError(c[1], c[2]), RatDiv(Span, Scale))

C18_Witness ==
    /\ RoundTripDone /\ RatLess(run.data_min, run.data_max)
    /\ fhe.n_bits = MaxBits
    /\ \E c \in Cells : RatLess(Rat(0), RoundTripError(c[1], c[2]))

\* C19 as stated: for data_max > data_min the round trip differs from x by at
\* most 1 / scale in absolute value.
C19_RoundTripWithinUnit ==
    RoundTripDone /\ RatLess(run.data_min, run.data_max) =>
        \A c \in Cells : RatLeq(RoundTripError(c[1], c[2]), RatDiv(Rat(1), Scale))

\* C19 as amended: for data_max > data_min with data_max - data_min <= 1 the
\* round trip differs from x by at most 1 / scale in absolute value.
C19_RoundTripWithinUnitNarrow ==
    RoundTripDone /\ RatLess(run.data_min, run.data_max) /\ RatLeq(Span, Rat(1)) =>
        \A c \in Cells : RatLeq(RoundTripError(c[1], c[2]), RatDiv(Rat(1), Scale))

C19_Witness ==
    /\ RoundTripDone /\ RatLess(run.data_min, run.data_max) /\ RatLeq(Span, Rat(1))
    /\ fhe.n_bits = DefaultBits
    /\ \E c \in Cells : RatLess(Rat(0), RoundTripError(c[1], c[2]))

\* the array handed to quantize holds one value only
ConstantInput == \A v \in Elements(run.X), w \in Elements(run.X) : v = w

\* C20 as stated: on a constant array quantize makes no division, returns the
\* unnormalized values converted to the integer type with data_min = data_max,
\* and dequantize of that result reproduces the original exactly.
C20_ConstantCastOnly ==
    RoundTripDone /\ ConstantInput =>
        /\ ~run.divided
        /\ run.data_min = run.data_max
        /\ \A c \in Cells : run.quantized[c[1]][c[2]] = Trunc(run.X[c[1]][c[2]])
        /\ run.dequantized = run.X

\* C20 as amended: on a constant array quantize makes no division, returns the
\* unnormalized values multiplied by scale and truncated to the integer type,
\* with data_min = data_max, and dequantize of that result reproduces the
\* original exactly.
C20_ConstantScaledCast ==
    RoundTripDone /\ ConstantInput =>
        /\ ~run.divided
        /\ run.data_min = run.data_max
        /\ \A c \in Cells :
              run.quantized[c[1]][c[2]] = Trunc(RatMul(run.X[c[1]][c[2]], Scale))
        /\ run.dequantized = run.X

C20_Witness ==
    /\ RoundTripDone /\ ConstantInput
    /\ fhe.n_bits = DefaultBits
    /\ run.X = <<<< <<-1, 2>>, <<-1, 2>>, <<-1, 2>> >>>>
    /\ run.quantized = <<<<-3, -3, -3>>>>

(***************************************************************************)
(* Properties of the prediction history.                                   *)
(***************************************************************************)
IsPrivacyEntry(e) == e.use_fhe
PrivacyLog == SelectSeq(okLog, IsPrivacyEntry)

\* C29: predictions_history never has more than 10 records, and they are the
\* records of the most recent min(10, m) successful privacy-mode calls, oldest
\* first, m being the number of successful privacy-mode calls so far; the 11th
\* record evicts the oldest.
C29_HistoryIsLastPrivacyCalls ==
    /\ Len(stats.predictions_history) <= HistoryCap
    /\ stats.predictions_history =
           LastRecords(PrivacyLog, Min(HistoryCap, Len(PrivacyLog)))

C29_Witness ==
    /\ Len(PrivacyLog) = HistoryCap + 1
    /\ Len(stats.predictions_history) = HistoryCap
    /\ stats.predictions_history[1] = RecordOf(PrivacyLog[2])

(***************************************************************************)
(* Properties of the stages of the FHE simulator.                          *)
(***************************************************************************)
Pipeline == <<"quantize", "encrypt", "compute_on_encrypted", "decrypt", "dequantize", "predict">>

\* the pipeline call in progress has invoked at least its first n operations
Invoked(n) == run.model # 0 /\ Len(run.calls) >= n

SameShape(A, B) == Len(A) = Len(B) /\ \A i \in Rows(A) : Len(A[i]) = Len(B[i])

\* A and B have one shape and every element of A - B lies in lo..hi
Within(A, B, lo, hi) ==
    /\ SameShape(A, B)
    /\ \A i \in Rows(A) : \A j \in 1..Len(A[i]) : (A[i][j] - B[i][j]) \in lo..hi

\* C24: a call of simulate_fhe_prediction runs quantize, encrypt,
\* compute_on_encrypted, decrypt and dequantize once each and in that order,
\* each on the output of the one before, dequantize with the data_min and
\* data_max of this call's quantize, and the classifier after all five.
C24_StagesInOrder ==
    run.model # 0 =>
        /\ run.calls = SubSeq(Pipeline, 1, Len(run.calls))
        /\ run.stage = "returned" <=> run.calls = Pipeline
        /\ run.prediction # <<>> => run.calls = Pipeline
        /\ Invoked(1) =>
              /\ run.quantized = quantize(run.self0, run.X).quantized
              /\ run.data_min = ArrayMin(run.X) /\ run.data_max = ArrayMax(run.X)
        /\ Invoked(2) => Within(run.encrypted, run.quantized, -2, 2)
        /\ Invoked(3) =>
              /\ Len(run.encrypted_result) = Len(run.encrypted)
              /\ \A i \in Rows(run.encrypted) :
                    /\ Len(run.encrypted_result[i]) = 1
                    /\ (run.encrypted_result[i][1] - SumSeq(run.encrypted[i])) \in -1..1
        /\ Invoked(4) => Within(run.decrypted, run.encrypted_result, -2, 2)
        /\ Invoked(5) =>
              /\ SameShape(run.dequantized, run.decrypted)
              /\ \A i \in Rows(run.decrypted) :
                    run.dequantized[i][1] =
                        RatAdd(RatMul(<<run.decrypted[i][1], run.self0.quantization_scale>>,
                                      RatSub(ArrayMax(run.X), ArrayMin(run.X))),
                               ArrayMin(run.X))

C24_Witness ==
    /\ run.model # 0 /\ run.stage = "returned" /\ run.calls = Pipeline
    /\ run.runs = 2
    /\ run.encrypted # run.quantized
    /\ run.decrypted # run.encrypted_result
    /\ run.dequantized # <<>>

\* C25: encrypt returns an array of the shape of its input whose elements
\* differ from the input's by an integer in -2..2, and metadata whose
\* original_shape is the input's shape and whose method tag is 'simulated'.
C25_EncryptNoiseAndMetadata ==
    (run.model # 0 /\ Len(run.calls) >= 2) =>
        /\ Within(run.encrypted, run.quantized, -2, 2)
        /\ run.metadata.original_shape = <<Len(run.quantized), Len(run.quantized[1])>>
        /\ run.metadata.encryption_method = "simulated"

C25_Witness ==
    /\ run.model # 0 /\ run.stage = "encrypted"
    /\ run.encrypted[1][1] - run.quantized[1][1] = -2
    /\ run.encrypted[1][2] - run.quantized[1][2] = 2
    /\ run.metadata.original_shape = <<1, 2>>

\* encrypt followed by decrypt has finished
CryptDone == run.stage = "returned" /\ run.X = <<>> /\ run.calls = <<"encrypt", "decrypt">>

Rekeyed(self) == [self EXCEPT !.public_key = "other", !.secret_key = "other"]

\* C28: the five operations leave n_bits, quantization_scale, public_key and
\* secret_key as they were, quantize stores no data_min or data_max on the
\* instance, and no operation's result depends on public_key or secret_key.
C28_NoPerCallState ==
    run.stage # "idle" =>
        /\ fhe = run.self0
        /\ DOMAIN fhe = {"n_bits", "quantization_scale", "public_key", "secret_key"}
        /\ Invoked(1) =>
              /\ quantize(Rekeyed(run.self0), run.X).quantized = run.quantized
              /\ quantize(Rekeyed(run.self0), run.X).data_min = run.data_min
              /\ quantize(Rekeyed(run.self0), run.X).data_max = run.data_max
        /\ Invoked(5) =>
              dequantize(Rekeyed(run.self0), run.decrypted, run.data_min, run.data_max)
                  = run.dequantized

C28_Witness ==
    /\ run.model # 0 /\ run.stage = "returned" /\ run.runs = 2
    /\ fhe = run.self0
    /\ fhe.public_key # fhe.secret_key
    /\ run.data_min # run.data_max

\* quantize has returned in a round trip
Quantized == run.model = 0 /\ run.X # <<>> /\ Len(run.calls) >= 1

\* C30: for data_max > data_min and n_bits in 1..8 every element returned by
\* quantize is an integer in 0..scale with scale = 2^n_bits - 1, an element
\* equal to data_min maps to 0 and an element equal to data_max maps to scale.
C30_QuantizedInRange ==
    Quantized /\ RatLess(ArrayMin(run.X), ArrayMax(run.X)) =>
        \A c \in Cells :
            /\ run.quantized[c[1]][c[2]] \in 0..(Pow2(fhe.n_bits) - 1)
            /\ run.X[c[1]][c[2]] = ArrayMin(run.X) => run.quantized[c[1]][c[2]] = 0
            /\ run.X[c[1]][c[2]] = ArrayMax(run.X) =>
                   run.quantized[c[1]][c[2]] = Pow2(fhe.n_bits) - 1

C30_Witness ==
    /\ Quantized /\ fhe.n_bits = MaxBits
    /\ \E a \in Cells, b \in Cells, c \in Cells :
          /\ run.quantized[a[1]][a[2]] = 0
          /\ run.quantized[b[1]][b[2]] = Pow2(MaxBits) - 1
          /\ run.quantized[c[1]][c[2]] \notin {0, Pow2(MaxBits) - 1}

(***************************************************************************)
(* Properties of the text processor.                                       *)
(***************************************************************************)
\* text_to_tensor has been called; the list it worked on
Embedded == emb.calls > 0
TextList == IF emb.is_str THEN <<emb.texts>> ELSE emb.texts

\* the ids the tokenizer gives for input text i
TokensOf(i) == Encode(emb.handed[i])

\* the batch that holds input text i, and the place of the text within it
BatchOf(i) == ((i - 1) \div emb.batch_size) + 1
PlaceOf(i) == ((i - 1) % emb.batch_size) + 1

\* the input texts that share batch n
TextsOfBatch(n) == {i \in 1..Len(TextList) : BatchOf(i) = n}

\* C21: for a non-empty list of k texts and a positive batch_size the result
\* has exactly k rows and row i is the pooled vector of text i; the batches are
\* the consecutive chunks of batch_size texts, the last possibly shorter, every
\* text lies in exactly one batch and the outputs are joined in batch order.
C21_RowsFollowTexts ==
    (Embedded /\ Len(TextList) > 0 /\ emb.batch_size > 0) =>
        /\ ~emb.raises
        /\ Len(emb.rows) = Len(TextList)
        /\ Len(emb.batches) = (Len(TextList) + emb.batch_size - 1) \div emb.batch_size
        /\ \A n \in 1..Len(emb.batches) :
              Len(emb.batches[n]) =
                  Min(emb.batch_size, Len(TextList) - (n - 1) * emb.batch_size)
        /\ \A i \in 1..Len(TextList) :
              /\ BatchOf(i) \in 1..Len(emb.batches)
              /\ PlaceOf(i) \in 1..Len(emb.batches[BatchOf(i)])
              /\ emb.rows[i].ids = emb.batches[BatchOf(i)][PlaceOf(i)]
              /\ emb.handed[i] = NormalizeText(TextList[i])
              /\ SubSeq(emb.rows[i].ids, 1, Len(TokensOf(i))) = TokensOf(i)

C21_Witness ==
    /\ Embedded /\ ~emb.is_str
    /\ Len(emb.texts) = 3 /\ emb.batch_size = 2
    /\ Len(emb.batches) = 2 /\ Len(emb.batches[2]) = 1
    /\ Len(emb.rows) = 3
    /\ emb.rows[1] # emb.rows[2] /\ emb.rows[2] # emb.rows[3] /\ emb.rows[1] # emb.rows[3]

NotWhitespace(c) == c \notin Whitespace
AllWhitespace(t) == \A p \in 1..Len(t) : t[p] \in Whitespace

\* C22: every text handed to the tokenizer is a non-empty string: non-string
\* elements are converted with str, runs of whitespace are collapsed to single
\* spaces, and a text that is empty after trimming becomes a single space, so
\* [""] and ["   "] hand on the same placeholder and give one row.
C22_HandedTextsNonEmpty ==
    Embedded =>
        /\ Len(emb.handed) = Len(TextList)
        /\ \A i \in 1..Len(TextList) :
              LET raw == Str(TextList[i])
                  h   == emb.handed[i]
              IN  /\ h # <<>>
                  /\ \A p \in 1..Len(h) : h[p] \in Whitespace => h[p] = " "
                  /\ \A p \in 1..(Len(h) - 1) : ~(h[p] = " " /\ h[p + 1] = " ")
                  /\ AllWhitespace(raw) => h = <<" ">>
                  /\ ~AllWhitespace(raw) =>
                        /\ SelectSeq(h, NotWhitespace) = SelectSeq(raw, NotWhitespace)
                        /\ h[1] # " " /\ h[Len(h)] # " "
                  /\ TextList[i].kind = "int" => h = <<Digits[TextList[i].value + 1]>>
                  /\ TextList[i].kind = "none" => h = <<"N", "o", "n", "e">>
        /\ (emb.batch_size > 0 /\ TextList \in {<<StrItem(<<>>)>>, <<StrItem(<<" ", " ", " ">>)>>}) =>
              /\ emb.handed = << <<" ">> >>
              /\ ~emb.raises /\ Len(emb.rows) = 1

C22_Witness ==
    /\ Embedded /\ emb.batch_size = 1
    /\ emb.texts = <<StrItem(<<>>), StrItem(<<" ", " ", " ">>), StrItem(<<"a", " ", "\t", "b">>)>>
    /\ emb.handed = << <<" ">>, <<" ">>, <<"a", " ", "b">> >>
    /\ Len(emb.rows) = 3

\* C23: two calls of text_to_tensor with the same texts, batch_size and
\* encoder return equal matrices, and a call changes no state of the
\* TextProcessor that a later call reads.
C23_RepeatableAndStateless ==
    Embedded =>
        /\ tproc = emb.self0
        /\ emb.again => emb.rows = emb.prev_rows

C23_Witness ==
    /\ Embedded /\ emb.again /\ emb.calls = 2
    /\ Len(emb.rows) = 3 /\ emb.batch_size = 2
    /\ emb.rows = emb.prev_rows
    /\ tproc = emb.self0

\* the longest token sequence among the texts of batch n
LongestOfBatch(n) ==
    CHOOSE l \in {Len(TokensOf(i)) : i \in TextsOfBatch(n)} :
        \A i \in TextsOfBatch(n) : Len(TokensOf(i)) <= l

\* C27: within each batch every token sequence is its own tokens followed by
\* fill id 0 up to the longest sequence of that batch, never of another batch,
\* so the sequences of a batch have one length, and with batch_size = 1 no
\* sequence is padded.
C27_PaddingIsBatchLocal ==
    (Embedded /\ emb.batch_size > 0) =>
        \A i \in 1..Len(TextList) :
            LET padded == emb.batches[BatchOf(i)][PlaceOf(i)]
                own    == TokensOf(i)
            IN  /\ Len(padded) = LongestOfBatch(BatchOf(i))
                /\ SubSeq(padded, 1, Len(own)) = own
                /\ \A p \in (Len(own) + 1)..Len(padded) : padded[p] = 0
                /\ emb.batch_size = 1 => padded = own

C27_Witness ==
    /\ Embedded /\ emb.batch_size = 2 /\ Len(TextList) = 3
    /\ Len(emb.batches[1][1]) > Len(TokensOf(1))
    /\ Len(emb.batches[1][1]) = Len(emb.batches[1][2])
    /\ Len(emb.batches[2][1]) > Len(emb.batches[1][1])
    /\ emb.batches[2][1] = TokensOf(3)

====
